---- MODULE Spec2Model ----
(***************************************************************************)
(* Cache-backed retrieval layer of proj2_nps.py: the process-wide cache     *)
(* CACHE_DICT, its on-disk JSON document, the three HTML operations, the    *)
(* external-API lookup, the key builder, the extraction of an entity page  *)
(* and the two prompts of main.  Text is modelled as sequences of           *)
(* one-character strings, so concatenation, containment and string          *)
(* conversion are computed rather than assumed.                             *)
(***************************************************************************)
EXTENDS Integers, Sequences, FiniteSets, TLC

VARIABLES
    CACHE_DICT,   \* the in-memory cache (module global, line 322)
    disk,         \* the file cache.json: absent, or its text
    proc,         \* "running", or "dead" when the module failed to load
    ret,          \* outcome of the last operation (observation only)
    returned,     \* per URL, the Entities this process was handed by get_site_instance
    fetches,      \* number of network requests issued so far
    k_base,       \* construct_unique_key: argument base_url
    k_params,     \* construct_unique_key: argument params, in dict order
    out_key,      \* construct_unique_key: the local out_key
    k_pc,         \* construct_unique_key: "call" before, "done" after
    e_soup,       \* extraction: the parsed entity page
    e_fields,     \* extraction: the five locals after line 135
    e_pc,         \* extraction: "call" before, "done" after
    sh_pc,        \* main: "start", at a prompt ("region", "select"), or ended
    state_url_dict, \* main: the local state_url_dict (line 356)
    sh_sites,     \* main: the local sites (line 372)
    user_input    \* main: what input() returned last

vars ==
    <<CACHE_DICT, disk, proc, ret, returned, fetches, k_base, k_params, out_key, k_pc,
      e_soup, e_fields, e_pc, sh_pc, state_url_dict, sh_sites, user_input>>

coreVars ==
    <<CACHE_DICT, disk, proc, ret, returned, fetches>>

keyVars ==
    <<k_base, k_params, out_key, k_pc>>

extractVars ==
    <<e_soup, e_fields, e_pc>>

shellVars ==
    <<sh_pc, state_url_dict, sh_sites, user_input>>

(***************************************************************************)
(* Bounds                                                                  *)
(***************************************************************************)
MaxFetches ==
    2

MaxStrLen ==
    1

MaxParams ==
    2

(***************************************************************************)
(* String constants of the source                                          *)
(***************************************************************************)
base_url ==
    <<"h", "t", "t", "p", "s", ":", "/", "/", "w", "w", "w", ".", "n", "p", "s", ".", "g", "o", "v">>

main_url ==
    <<"/", "i", "n", "d", "e", "x", ".", "h", "t", "m">>

endpoint ==
    <<"h", "t", "t", "p", ":", "/", "/", "w", "w", "w", ".", "m", "a", "p", "q", "u", "e", "s", "t", "a", "p", "i", ".", "c", "o", "m", "/", "s", "e", "a", "r", "c", "h", "/", "v", "2", "/", "r", "a", "d", "i", "u", "s">>

API_KEY ==
    <<"S", "E", "C", "R", "E", "T">>

connector ==
    <<"_">>

NoName ==
    <<"N", "o", " ", "N", "a", "m", "e">>

NoCategory ==
    <<"N", "o", " ", "C", "a", "t", "e", "g", "o", "r", "y">>

NoZipcode ==
    <<"N", "o", " ", "Z", "i", "p", "c", "o", "d", "e">>

NoPhone ==
    <<"N", "o", " ", "P", "h", "o", "n", "e">>

NoAddress ==
    <<"N", "o", " ", "A", "d", "d", "r", "e", "s", "s">>

CommaSpace ==
    <<",", " ">>

P_key ==
    <<"k", "e", "y">>

P_origin ==
    <<"o", "r", "i", "g", "i", "n">>

P_radius ==
    <<"r", "a", "d", "i", "u", "s">>

P_maxMatches ==
    <<"m", "a", "x", "M", "a", "t", "c", "h", "e", "s">>

P_ambiguities ==
    <<"a", "m", "b", "i", "g", "u", "i", "t", "i", "e", "s">>

P_outFormat ==
    <<"o", "u", "t", "F", "o", "r", "m", "a", "t">>

V_ignore ==
    <<"i", "g", "n", "o", "r", "e">>

V_json ==
    <<"j", "s", "o", "n">>

F_category ==
    <<"c", "a", "t", "e", "g", "o", "r", "y">>

F_name ==
    <<"n", "a", "m", "e">>

F_address ==
    <<"a", "d", "d", "r", "e", "s", "s">>

F_zipcode ==
    <<"z", "i", "p", "c", "o", "d", "e">>

F_phone ==
    <<"p", "h", "o", "n", "e">>

K_searchResults ==
    <<"s", "e", "a", "r", "c", "h", "R", "e", "s", "u", "l", "t", "s">>

SchemeHttp ==
    <<"h", "t", "t", "p", ":", "/", "/">>

SchemeHttps ==
    <<"h", "t", "t", "p", "s", ":", "/", "/">>

(***************************************************************************)
(* Python values.  A parameter value is an int or a str; f"{v}" renders it. *)
(***************************************************************************)
IntV(n) ==
    [t |-> "int", n |-> n]

StrV(s) ==
    [t |-> "str", s |-> s]

Digit(d) ==
    CASE d = 0 -> "0" [] d = 1 -> "1" [] d = 2 -> "2" [] d = 3 -> "3"
      [] d = 4 -> "4" [] d = 5 -> "5" [] d = 6 -> "6" [] d = 7 -> "7"
      [] d = 8 -> "8" [] d = 9 -> "9"

RECURSIVE Digits(_)
Digits(n) ==
    IF n < 10 THEN <<Digit(n)>> ELSE Digits(n \div 10) \o <<Digit(n % 10)>>

\* f"{params[key]}" (line 236): decimal rendering of an int, a str as it is
Str(v) ==
    IF v.t = "int" THEN Digits(v.n) ELSE v.s

(***************************************************************************)
(* construct_unique_key (lines 216-238)                                    *)
(***************************************************************************)
\* a plausible slip: the connector between name and value is left out
KeyAppendNoInner(key, conn, name, value) ==
    key \o conn \o name \o Str(value)

\* line 236: out_key += connector + f"{key}{connector}{params[key]}"
KeyAppend(key, conn, name, value) ==
    key \o conn \o name \o conn \o Str(value)

RECURSIVE KeyLoop(_, _, _, _)
\* lines 235-236: the loop over params in dict order, from position i on
KeyLoop(key, params, i, conn) ==
    IF i > Len(params)
    THEN key
    ELSE KeyLoop(KeyAppend(key, conn, params[i][1], params[i][2]), params, i + 1, conn)

\* lines 234-238; params is the dict as its sequence of (name, value) items
construct_unique_key(base, params, conn) ==
    KeyLoop(base, params, 1, conn)

(***************************************************************************)
(* Inputs of the key builder                                               *)
(***************************************************************************)
KeyAlphabet ==
    {"a", "_"}

StrsUpTo(n) ==
    UNION {[1..m -> KeyAlphabet] : m \in 0..n}

KeyBases ==
    StrsUpTo(MaxStrLen) \ {<<>>}

KeyNames ==
    StrsUpTo(MaxStrLen)

KeyValues ==
    {StrV(s) : s \in StrsUpTo(MaxStrLen)} \cup {IntV(1), IntV(10)}

\* a dict has no two items with the same name
DistinctNames(p) ==
    \A i, j \in 1..Len(p) : p[i][1] = p[j][1] => i = j

ParamSeqs ==
    {p \in UNION {[1..m -> KeyNames \X KeyValues] : m \in 0..MaxParams} : DistinctNames(p)}

Reorderings(p) ==
    {[i \in 1..Len(p) |-> p[f[i]]] : f \in Permutations(1..Len(p))}

(***************************************************************************)
(* Text helpers                                                            *)
(***************************************************************************)
\* an optional value: <<>> is Python's None, <<x>> is x
None ==
    <<>>

Some(x) ==
    <<x>>

UpperChars ==
    <<"A", "B", "C", "D", "E", "F", "G", "H", "I", "J", "K", "L", "M",
      "N", "O", "P", "Q", "R", "S", "T", "U", "V", "W", "X", "Y", "Z">>

LowerChars ==
    <<"a", "b", "c", "d", "e", "f", "g", "h", "i", "j", "k", "l", "m",
      "n", "o", "p", "q", "r", "s", "t", "u", "v", "w", "x", "y", "z">>

\* str.lower() (line 84)
Lower(s) ==
    [i \in 1..Len(s) |->
        IF \E j \in 1..26 : UpperChars[j] = s[i]
        THEN LowerChars[CHOOSE j \in 1..26 : UpperChars[j] = s[i]]
        ELSE s[i]]

RECURSIVE LStrip(_)
LStrip(s) ==
    IF s # <<>> /\ Head(s) = " " THEN LStrip(Tail(s)) ELSE s

RECURSIVE RStrip(_)
RStrip(s) ==
    IF s # <<>> /\ s[Len(s)] = " " THEN RStrip(SubSeq(s, 1, Len(s) - 1)) ELSE s

\* str.strip() (lines 115-132)
Strip(s) ==
    RStrip(LStrip(s))

HasPrefix(s, p) ==
    Len(s) >= Len(p) /\ SubSeq(s, 1, Len(p)) = p

\* requests.get raises MissingSchema, before any network access, for a
\* string that is not an http(s) URL
HasScheme(s) ==
    HasPrefix(s, SchemeHttp) \/ HasPrefix(s, SchemeHttps)

Contains(s, w) ==
    \E i \in 1..(Len(s) - Len(w) + 1) : SubSeq(s, i, i + Len(w) - 1) = w

(***************************************************************************)
(* Dictionaries and the cache file                                         *)
(***************************************************************************)
EmptyDict ==
    [k \in {} |-> 0]

\* a plausible slip: the cache is rebound to a dict of the new entry alone
DictPutAlone(d, key, value) ==
    [k \in {key} |-> value]

\* CACHE_DICT[key] = value
DictPut(d, key, value) ==
    [k \in (DOMAIN d) \cup {key} |-> IF k = key THEN value ELSE d[k]]

\* the file as open(filename, "w") leaves it before anything is written
EmptyText ==
    [kind |-> "empty"]

\* the file after a write that did not complete
PartialText ==
    [kind |-> "partial"]

\* json.dumps(cache_dict) (line 283)
json_dumps(d) ==
    [kind |-> "json", doc |-> d]

\* json.loads(text) (line 257) succeeds on a JSON text only
json_loadable(text) ==
    text.kind = "json"

json_loads(text) ==
    text.doc

NoFile ==
    [exists |-> FALSE, text |-> EmptyText]

File(text) ==
    [exists |-> TRUE, text |-> text]

SaveOutcomes ==
    {"ok", "denied", "partial"}

\* save_cache (lines 267-283).  io is what the file system does: "ok",
\* "denied" (open fails, file untouched), "partial" (write fails midway)
save_cache(cache_dict, file, io) ==
    CASE io = "ok"      -> [disk |-> File(json_dumps(cache_dict)), raised |-> FALSE]
      [] io = "denied"  -> [disk |-> file, raised |-> TRUE]
      [] io = "partial" -> [disk |-> File(PartialText), raised |-> TRUE]

\* open_cache (lines 241-264)
open_cache(file) ==
    IF ~file.exists
    THEN [cache |-> EmptyDict, disk |-> File(EmptyText), raised |-> FALSE]
    ELSE IF json_loadable(file.text)
         THEN [cache |-> json_loads(file.text), disk |-> file, raised |-> FALSE]
         ELSE [cache |-> EmptyDict, disk |-> file, raised |-> TRUE]


(***************************************************************************)
(* What the network can answer                                             *)
(***************************************************************************)
\* an entity detail page, seen through the six locators of lines 115-132:
\* each is None (no such element) or the element's text
Doc(name, cate, zip, phone, city, state) ==
    [name |-> name, cate |-> cate, zip |-> zip, phone |-> phone,
     city |-> city, state |-> state]

FullDoc ==
    Doc(Some(<<" ", "Y">>), Some(<<"P">>), Some(<<"4", "9", " ">>), Some(<<"7">>),
        Some(<<"H">>), Some(<<"M", "I">>))

PartDoc ==
    Doc(Some(<<"Z">>), None, Some(<<"4", "9">>), None, Some(<<"H">>), None)

BlankDoc ==
    Doc(None, None, None, None, None, None)

EntityDocs ==
    {FullDoc, PartDoc, BlankDoc}

Hrefs ==
    {main_url, <<"/", "s">>, <<"/", "p">>}

Urls ==
    {base_url \o h : h \in Hrefs}

\* a region listing page, seen through select("ul li h3 a"): the hrefs, in
\* page order; a listing may link to the region page or to the index page
Listings ==
    {<<>>,
     <<<<"/", "p">>, <<"/", "p">>>>,
     <<<<"/", "p">>, <<"/", "s">>>>,
     <<main_url, <<"/", "p">>>>}

Anchor(text, href) ==
    [text |-> text, href |-> href]

\* the index page, seen through find("ul", ...).find_all("li"): None when
\* the list is not there, else per li its anchor (None when it has none)
Navs ==
    {None,
     Some(<<>>),
     Some(<<Some(Anchor(<<"M", "I">>, <<"/", "s">>))>>),
     Some(<<None>>)}

\* requests.get: a transport error ("exc", no body), a 200 answer ("ok"), or
\* a non-200 answer ("bad") whose body is an error page
HtmlOutcomes(bodies, errorBody) ==
    {[status |-> s, body |-> errorBody] : s \in {"exc", "bad"}}
        \cup {[status |-> "ok", body |-> b] : b \in bodies}

EntityOutcomes ==
    HtmlOutcomes(EntityDocs, BlankDoc)

ListingOutcomes ==
    HtmlOutcomes(Listings, <<>>)

NavOutcomes ==
    HtmlOutcomes(Navs, None)

Payload(results) ==
    [t |-> "payload", searchResults |-> results]

NotJson ==
    [t |-> "notjson"]

\* the external API: as above, and a 200 answer may fail to be JSON
ApiOutcomes ==
    {[status |-> s, body |-> NotJson] : s \in {"exc", "bad"}}
        \cup {[status |-> "bad", body |-> Payload(<<>>)]}
        \cup {[status |-> "ok", body |-> b] : b \in {Payload(<<>>), Payload(<<"r">>), NotJson}}

(***************************************************************************)
(* NationalSite and the extraction of lines 114-135                        *)
(***************************************************************************)
\* NationalSite.__init__ (lines 33-38)
NationalSite(category, name, address, zipcode, phone) ==
    [t |-> "site", category |-> category, name |-> name, address |-> address,
     zipcode |-> zipcode, phone |-> phone]

\* a plausible slip: the dict literal pairs name and category the wrong way
EntityMappingSwapped(cate, name, address, zip_code, phone) ==
    [t |-> "entity", category |-> name, name |-> cate, address |-> address,
     zipcode |-> zip_code, phone |-> phone]

\* the dict literal of line 137
EntityMapping(cate, name, address, zip_code, phone) ==
    [t |-> "entity", category |-> cate, name |-> name, address |-> address,
     zipcode |-> zip_code, phone |-> phone]

\* a plausible slip: every except branch assigns the same sentinel
LocatedTextOneSentinel(element, sentinel) ==
    IF element = None THEN NoName ELSE Strip(element[1])

\* try: soup.find(...).text.strip() / except Exception: sentinel
LocatedText(element, sentinel) ==
    IF element = None THEN sentinel ELSE Strip(element[1])

\* a plausible slip: a try block of its own around each sub-value
LocatedAddressPartial(city, state) ==
    LocatedText(city, NoAddress) \o CommaSpace \o LocatedText(state, NoAddress)

\* lines 130-135: one try block around both sub-values
LocatedAddress(city, state) ==
    IF city = None \/ state = None
    THEN NoAddress
    ELSE Strip(city[1]) \o CommaSpace \o Strip(state[1])

\* lines 114-135: the five locals the locators leave behind
Extract(soup) ==
    [name |-> LocatedText(soup.name, NoName),
     cate |-> LocatedText(soup.cate, NoCategory),
     zip_code |-> LocatedText(soup.zip, NoZipcode),
     phone |-> LocatedText(soup.phone, NoPhone),
     address |-> LocatedAddress(soup.city, soup.state)]

\* a plausible slip: the cached list is walked from its end
IterReversed(value) ==
    CASE value.t = "list"   -> [i \in 1..Len(value.l) |-> value.l[Len(value.l) + 1 - i]]
      [] value.t = "entity" -> <<F_category, F_name, F_address, F_zipcode, F_phone>>
      [] value.t = "index"  -> [i \in 1..Len(value.items) |-> value.items[i][1]]
      [] value.t = "payload" -> <<K_searchResults>>

\* what iterating a cached value yields (line 173): the elements of a list,
\* the keys of a dict in insertion order
Iter(value) ==
    CASE value.t = "list"    -> value.l
      [] value.t = "entity"  -> <<F_category, F_name, F_address, F_zipcode, F_phone>>
      [] value.t = "index"   -> [i \in 1..Len(value.items) |-> value.items[i][1]]
      [] value.t = "payload" -> <<K_searchResults>>

\* out_dict[key] = value on a dict kept as its sequence of items
RECURSIVE ItemsPut(_, _, _)
ItemsPut(items, key, value) ==
    IF items = <<>>
    THEN <<<<key, value>>>>
    ELSE IF Head(items)[1] = key
         THEN <<<<key, value>>>> \o Tail(items)
         ELSE <<Head(items)>> \o ItemsPut(Tail(items), key, value)

(***************************************************************************)
(* One run of an operation: the state it works on and what it observes      *)
(***************************************************************************)
Ctx(cache, file, seen) ==
    [cache |-> cache, disk |-> file, returned |-> seen, net |-> 0,
     missed |-> {}, failedKeys |-> {}, refetched |-> {}, again |-> {},
     apiFailed |-> FALSE, payload |-> None, misfit |-> {},
     saveFailed |-> FALSE]

Raise(x, name) ==
    [x |-> x, kind |-> "raise", val |-> [t |-> "exc", name |-> name]]

Return(x, value) ==
    [x |-> x, kind |-> "ok", val |-> value]

\* get_site_instance hands site back for site_url; again: not for the first time
Handed(x, site_url, site) ==
    [x EXCEPT !.returned = @ \cup {<<site_url, site>>},
              !.again = IF \E p \in x.returned : p[1] = site_url
                        THEN @ \cup {site_url} ELSE @]

\* requests.get was sent
Fetched(x) ==
    [x EXCEPT !.net = @ + 1]

\* the request for url came back with a transport error or a non-200 status
Failed(x, url, out) ==
    IF out.status = "ok" THEN x ELSE [x EXCEPT !.failedKeys = @ \cup {url}]

Missed(x, key) ==
    [x EXCEPT !.missed = @ \cup {key}]

\* the external API answered with body
Received(x, body) ==
    [x EXCEPT !.payload = Some(body)]

\* the reader of key found a cached value of another shape than its own
Misfit(x, key) ==
    [x EXCEPT !.misfit = @ \cup {key}]

\* save_cache ran as s
Saved(x, s) ==
    [x EXCEPT !.disk = s.disk, !.saveFailed = @ \/ s.raised]

\* CACHE_DICT[key] = value
Inserted(x, key, value) ==
    [x EXCEPT !.cache = DictPut(@, key, value)]

(***************************************************************************)
(* build_state_url_dict (lines 56-89)                                      *)
(***************************************************************************)
\* line 72
IndexKey ==
    base_url \o main_url

RECURSIVE NavLoop(_, _, _)
\* lines 81-84: li_tag.find("a") is None for an li without an anchor, and
\* subscripting it raises TypeError
NavLoop(li_tags, i, out_dict) ==
    IF i > Len(li_tags)
    THEN [raised |-> FALSE, items |-> out_dict]
    ELSE IF li_tags[i] = None
         THEN [raised |-> TRUE, items |-> out_dict]
         ELSE LET anchor == li_tags[i][1]
              IN  NavLoop(li_tags, i + 1,
                          ItemsPut(out_dict, Lower(anchor.text), base_url \o anchor.href))

build_state_url_dict(x, out, io) ==
    IF IndexKey \in DOMAIN x.cache
    THEN Return(IF x.cache[IndexKey].t = "index" THEN x ELSE Misfit(x, IndexKey),
                x.cache[IndexKey])
    ELSE LET x1 == Failed(Fetched(Missed(x, IndexKey)), IndexKey, out)
         IN  IF out.status = "exc" THEN Raise(x1, "ConnectionError")
             ELSE IF out.body = None THEN Raise(x1, "AttributeError")
             ELSE LET l == NavLoop(out.body[1], 1, <<>>)
                  IN  IF l.raised THEN Raise(x1, "TypeError")
                      ELSE LET out_dict == [t |-> "index", items |-> l.items]
                               x2 == Inserted(x1, IndexKey, out_dict)
                               s == save_cache(x2.cache, x2.disk, io)
                               x3 == Saved(x2, s)
                           IN  IF s.raised THEN Raise(x3, "OSError")
                               ELSE Return(x3, out_dict)

(***************************************************************************)
(* get_site_instance (lines 92-140)                                        *)
(***************************************************************************)
\* NationalSite(**json_dict) (line 108): a TypeError unless json_dict is a
\* mapping of exactly the five constructor arguments
IsFieldMapping(value) ==
    value.t = "entity"

get_site_instance(site_url, x, out, io) ==
    IF site_url \in DOMAIN x.cache
    THEN LET json_dict == x.cache[site_url]
         IN  IF IsFieldMapping(json_dict)
             THEN LET site == NationalSite(json_dict.category, json_dict.name,
                                           json_dict.address, json_dict.zipcode,
                                           json_dict.phone)
                  IN  Return(Handed(x, site_url, site), site)
             ELSE Raise(Misfit(x, site_url), "TypeError")
    ELSE IF ~HasScheme(site_url) THEN Raise(Missed(x, site_url), "MissingSchema")
    ELSE LET x0 == Failed(Fetched(Missed(x, site_url)), site_url, out)
             x1 == IF \E p \in x.returned : p[1] = site_url
                   THEN [x0 EXCEPT !.refetched = @ \cup {site_url}]
                   ELSE x0
         IN  IF out.status = "exc" THEN Raise(x1, "ConnectionError")
             ELSE LET soup == out.body
                      e == Extract(soup)
                      name == e.name
                      cate == e.cate
                      zip_code == e.zip_code
                      phone == e.phone
                      address == e.address
                      x2 == Inserted(x1, site_url,
                                     EntityMapping(cate, name, address, zip_code, phone))
                      s == save_cache(x2.cache, x2.disk, io)
                      x3 == Saved(x2, s)
                      site == NationalSite(cate, name, address, zip_code, phone)
                  IN  IF s.raised THEN Raise(x3, "OSError")
                      ELSE Return(Handed(x3, site_url, site), site)

\* every way one call can go: the network and the file system answer only
\* when they are asked
GetSiteRuns(site_url, x) ==
    IF site_url \in DOMAIN x.cache \/ ~HasScheme(site_url)
    THEN {get_site_instance(site_url, x, [status |-> "exc", body |-> BlankDoc], "ok")}
    ELSE {get_site_instance(site_url, x, out, io) :
            out \in EntityOutcomes, io \in SaveOutcomes}

(***************************************************************************)
(* get_sites_for_state (lines 143-176)                                     *)
(***************************************************************************)
\* lines 157-171: the links, from the cache or from the listing page
state_links(state_url, x, out) ==
    IF state_url \in DOMAIN x.cache
    THEN [x |-> IF x.cache[state_url].t = "list" THEN x ELSE Misfit(x, state_url),
          raised |-> FALSE, links |-> Iter(x.cache[state_url])]
    ELSE IF ~HasScheme(state_url)
         THEN [x |-> Missed(x, state_url), raised |-> TRUE, links |-> <<>>]
    ELSE LET x1 == Failed(Fetched(Missed(x, state_url)), state_url, out)
         IN  IF out.status = "exc"
             THEN [x |-> x1, raised |-> TRUE, links |-> <<>>]
             ELSE LET anchors == out.body
                      links == [i \in 1..Len(anchors) |-> base_url \o anchors[i]]
                  IN  [x |-> Inserted(x1, state_url, [t |-> "list", l |-> links]),
                       raised |-> FALSE, links |-> links]

RECURSIVE SitesLoop(_, _, _, _)
\* lines 173-174: every way the loop can go from position i on
SitesLoop(links, i, x, sites) ==
    IF i > Len(links)
    THEN {Return(x, [t |-> "sites", sites |-> sites])}
    ELSE UNION {IF r.kind = "raise"
                THEN {r}
                ELSE SitesLoop(links, i + 1, r.x, Append(sites, r.val)) :
                    r \in GetSiteRuns(links[i], x)}

GetSitesRuns(state_url, x) ==
    UNION {LET sl == state_links(state_url, x, out)
           IN  IF sl.raised
               THEN {Raise(sl.x, IF HasScheme(state_url) THEN "ConnectionError"
                                                        ELSE "MissingSchema")}
               ELSE SitesLoop(sl.links, 1, sl.x, <<>>) :
               out \in IF state_url \in DOMAIN x.cache
                       THEN {[status |-> "exc", body |-> <<>>]}
                       ELSE ListingOutcomes}

(***************************************************************************)
(* get_nearby_places (lines 179-213)                                       *)
(***************************************************************************)
\* lines 193-198, in the order the dict literal lists them
NearbyParams(site_object) ==
    <<<<P_key, StrV(API_KEY)>>,
      <<P_origin, StrV(site_object.zipcode)>>,
      <<P_radius, IntV(10)>>,
      <<P_maxMatches, IntV(10)>>,
      <<P_ambiguities, StrV(V_ignore)>>,
      <<P_outFormat, StrV(V_json)>>>>

\* the key get_nearby_places looks site_object up under
NearbyKey(site_object) ==
    construct_unique_key(endpoint, NearbyParams(site_object), connector)

\* line 207 never true: a 200 answer and any other are treated alike
AccessFailedNever(out) ==
    FALSE

\* line 207: resp.status_code != 200
AccessFailed(out) ==
    out.status = "bad"

\* line 210, resp.json(), with the search results dropped
resp_json_emptied(out) ==
    Payload(<<>>)

\* line 210: resp.json() of a body that is JSON
resp_json(out) ==
    out.body

get_nearby_places(site_object, x, out, io) ==
    LET unique_key == construct_unique_key(endpoint, NearbyParams(site_object), connector)
    IN  IF unique_key \in DOMAIN x.cache
        THEN Return(IF x.cache[unique_key].t = "payload" THEN x
                    ELSE Misfit(x, unique_key),
                    x.cache[unique_key])
        ELSE LET x0 == Fetched(Missed(x, unique_key))
                 xr == IF out.status = "exc" THEN x0 ELSE Received(x0, out.body)
                 x1 == IF out.status = "ok" THEN xr ELSE [xr EXCEPT !.apiFailed = TRUE]
             IN  IF out.status = "exc" THEN Raise(x1, "ConnectionError")
                 ELSE IF AccessFailed(out) THEN Raise(x1, "Access Failed!")
                 ELSE IF out.body = NotJson THEN Raise(x1, "JSONDecodeError")
                 ELSE LET x2 == Inserted(x1, unique_key, resp_json(out))
                          s == save_cache(x2.cache, x2.disk, io)
                          x3 == Saved(x2, s)
                      IN  IF s.raised THEN Raise(x3, "OSError")
                          ELSE Return(x3, x3.cache[unique_key])

(***************************************************************************)
(* The state machine of the cache-backed operations                        *)
(***************************************************************************)
Observed(op, arg, r) ==
    [op |-> op, arg |-> arg, kind |-> r.kind, val |-> r.val, net |-> r.x.net,
     missed |-> r.x.missed, failedKeys |-> r.x.failedKeys,
     refetched |-> r.x.refetched, again |-> r.x.again,
     apiFailed |-> r.x.apiFailed, payload |-> r.x.payload, misfit |-> r.x.misfit,
     saveFailed |-> r.x.saveFailed]

\* the variables of the key builder, the extraction and main while the
\* specification at hand does not run them
KeyIdle ==
    /\ k_base = <<>>
    /\ k_params = <<>>
    /\ out_key = <<>>
    /\ k_pc = "idle"

ExtractIdle ==
    /\ e_soup = BlankDoc
    /\ e_fields = [t |-> "none"]
    /\ e_pc = "idle"

ShellIdle ==
    /\ sh_pc = "off"
    /\ state_url_dict = [t |-> "none"]
    /\ sh_sites = <<>>
    /\ user_input = <<>>

\* the process start of an absent cache file (lines 321-322)
Init ==
    LET o == open_cache(NoFile)
    IN  /\ CACHE_DICT = o.cache
        /\ disk = o.disk
        /\ proc = "running"
        /\ returned = {}
        /\ fetches = 0
        /\ ret = Observed("open_cache", <<>>,
                          Return(Ctx(o.cache, o.disk, {}), [t |-> "none"]))
        /\ KeyIdle
        /\ ExtractIdle
        /\ ShellIdle

\* the operation ran as r; the network is asked at most MaxFetches times
Commit(op, arg, r) ==
    /\ fetches + r.x.net <= MaxFetches
    /\ CACHE_DICT' = r.x.cache
    /\ disk' = r.x.disk
    /\ returned' = r.x.returned
    /\ fetches' = fetches + r.x.net
    /\ ret' = Observed(op, arg, r)
    /\ UNCHANGED proc

Now ==
    Ctx(CACHE_DICT, disk, returned)

BuildStateUrlDict ==
    /\ proc = "running"
    /\ \E out \in IF IndexKey \in DOMAIN CACHE_DICT
                  THEN {[status |-> "exc", body |-> None]} ELSE NavOutcomes,
          io \in IF IndexKey \in DOMAIN CACHE_DICT THEN {"ok"} ELSE SaveOutcomes :
            Commit("build_state_url_dict", <<>>, build_state_url_dict(Now, out, io))
    /\ UNCHANGED <<keyVars, extractVars, shellVars>>

GetSiteInstance ==
    /\ proc = "running"
    /\ \E site_url \in Urls :
          \E r \in GetSiteRuns(site_url, Now) :
              Commit("get_site_instance", <<site_url>>, r)
    /\ UNCHANGED <<keyVars, extractVars, shellVars>>

GetSitesForState ==
    /\ proc = "running"
    /\ \E state_url \in Urls :
          \E r \in GetSitesRuns(state_url, Now) :
              Commit("get_sites_for_state", <<state_url>>, r)
    /\ UNCHANGED <<keyVars, extractVars, shellVars>>

GetNearbyPlaces ==
    /\ proc = "running"
    /\ \E site_object \in {p[2] : p \in returned} :
          \E out \in ApiOutcomes, io \in SaveOutcomes :
              Commit("get_nearby_places", <<site_object>>,
                     get_nearby_places(site_object, Now, out, io))
    /\ UNCHANGED <<keyVars, extractVars, shellVars>>

\* the process ends and the program is started again (lines 321-322)
Restart ==
    LET o == open_cache(disk)
    IN  /\ CACHE_DICT' = o.cache
        /\ disk' = o.disk
        /\ proc' = IF o.raised THEN "dead" ELSE "running"
        /\ ret' = Observed("open_cache", <<>>,
                           IF o.raised
                           THEN Raise(Ctx(o.cache, o.disk, {}), "JSONDecodeError")
                           ELSE Return(Ctx(o.cache, o.disk, {}), [t |-> "none"]))
        /\ returned' = {}
        /\ UNCHANGED <<fetches, keyVars, extractVars, shellVars>>

Next ==
    \/ BuildStateUrlDict
    \/ GetSiteInstance
    \/ GetSitesForState
    \/ GetNearbyPlaces
    \/ Restart

Spec ==
    Init /\ [][Next]_vars

(***************************************************************************)
(* The operations in a process that starts from a cache file earlier runs  *)
(* have left behind                                                        *)
(***************************************************************************)
RegionUrl ==
    base_url \o <<"/", "s">>

ParkUrl ==
    base_url \o <<"/", "p">>

OtherParkUrl ==
    base_url \o <<"/", "q">>

\* what line 137 stores for a fetched page
MappingOf(soup) ==
    LET e == Extract(soup)
    IN  EntityMapping(e.cate, e.name, e.address, e.zip_code, e.phone)

\* the index and one region's list of two links are cached, the entity
\* pages are not: the entity fetch failed in the run that listed the region
SeedListed ==
    DictPut(DictPut(EmptyDict, IndexKey,
                    [t |-> "index",
                     items |-> NavLoop(<<Some(Anchor(<<"M", "I">>, <<"/", "s">>))>>,
                                       1, <<>>).items]),
            RegionUrl, [t |-> "list", l |-> <<ParkUrl, OtherParkUrl>>])

\* as before, with both entity pages cached
SeedVisited ==
    DictPut(DictPut(SeedListed, ParkUrl, MappingOf(FullDoc)),
            OtherParkUrl, MappingOf(PartDoc))

Seeds ==
    {SeedListed, SeedVisited}

\* the process start (lines 321-322) of a cache file that holds a seed
InitSeeded ==
    \E seed \in Seeds :
        LET o == open_cache(File(json_dumps(seed)))
        IN  /\ CACHE_DICT = o.cache
            /\ disk = o.disk
            /\ proc = "running"
            /\ returned = {}
            /\ fetches = 0
            /\ ret = Observed("open_cache", <<>>,
                              Return(Ctx(o.cache, o.disk, {}), [t |-> "none"]))
            /\ KeyIdle
            /\ ExtractIdle
            /\ ShellIdle

NextSeeded ==
    \/ BuildStateUrlDict
    \/ GetSiteInstance
    \/ GetSitesForState
    \/ GetNearbyPlaces
    \/ Restart

SpecSeeded ==
    InitSeeded /\ [][NextSeeded]_vars

(***************************************************************************)
(* main (lines 355-411): the two prompts                                   *)
(***************************************************************************)
\* characters int() reads as decimal digits
DecimalChars ==
    {"0", "1", "2", "3", "4", "5", "6", "7", "8", "9"}

\* characters str.isnumeric() accepts: the decimal digits and other numeric
\* characters, of which "sup2" stands for SUPERSCRIPT TWO (U+00B2)
NumericChars ==
    DecimalChars \cup {"sup2"}

\* user_input.isnumeric() (line 385): False for the empty string
isnumeric(text) ==
    /\ text # <<>>
    /\ \A i \in 1..Len(text) : text[i] \in NumericChars

DigitValue(c) ==
    CHOOSE d \in 0..9 : Digit(d) = c

RECURSIVE DecimalValue(_)
DecimalValue(text) ==
    IF text = <<>> THEN 0
    ELSE 10 * DecimalValue(SubSeq(text, 1, Len(text) - 1)) + DigitValue(text[Len(text)])

\* int(user_input) (line 390) of a text isnumeric() accepted: a ValueError
\* unless every character is a decimal digit
int(text) ==
    IF \A i \in 1..Len(text) : text[i] \in DecimalChars
    THEN [raised |-> FALSE, number |-> DecimalValue(text)]
    ELSE [raised |-> TRUE, number |-> 0]

T_exit ==
    <<"e", "x", "i", "t">>

T_back ==
    <<"b", "a", "c", "k">>

\* what the user may type at a prompt
ShellInputs ==
    {T_exit, T_back, <<"M", "I">>, <<"m", "i">>, <<"x">>, <<>>,
     <<"0">>, <<"1">>, <<"2">>, <<"3">>, <<"0", "2">>, <<"sup2">>}

\* the keys of the dict build_state_url_dict returned
RegionNames(index) ==
    {index.items[i][1] : i \in 1..Len(index.items)}

\* state_url_dict[state_key] (line 370)
RegionUrlOf(index, state_key) ==
    LET i == CHOOSE j \in 1..Len(index.items) : index.items[j][1] = state_key
    IN  index.items[i][2]

\* the cache file the process finds: none, or one earlier runs left behind
InitShell ==
    \E file \in {NoFile} \cup {File(json_dumps(seed)) : seed \in Seeds} :
        LET o == open_cache(file)
        IN  /\ CACHE_DICT = o.cache
            /\ disk = o.disk
            /\ proc = "running"
            /\ returned = {}
            /\ fetches = 0
            /\ ret = Observed("open_cache", <<>>,
                              Return(Ctx(o.cache, o.disk, {}), [t |-> "none"]))
            /\ KeyIdle
            /\ ExtractIdle
            /\ sh_pc = "start"
            /\ state_url_dict = [t |-> "none"]
            /\ sh_sites = <<>>
            /\ user_input = <<>>

\* no core operation is called
CoreUntouched ==
    UNCHANGED <<CACHE_DICT, disk, proc, ret, returned, fetches>>

\* line 356; an exception here ends the process before the first prompt
ShellStart ==
    /\ sh_pc = "start"
    /\ \E out \in IF IndexKey \in DOMAIN CACHE_DICT
                  THEN {[status |-> "exc", body |-> None]} ELSE NavOutcomes,
          io \in IF IndexKey \in DOMAIN CACHE_DICT THEN {"ok"} ELSE SaveOutcomes :
            LET r == build_state_url_dict(Now, out, io)
            IN  /\ Commit("build_state_url_dict", <<>>, r)
                /\ IF r.kind = "raise"
                   THEN sh_pc' = "aborted" /\ UNCHANGED state_url_dict
                   ELSE sh_pc' = "region" /\ state_url_dict' = r.val
    /\ UNCHANGED <<keyVars, extractVars, sh_sites, user_input>>

\* lines 359-377: one pass of the outer loop, from its input() to the next
\* input(); no statement of main catches an exception
ShellRegion ==
    /\ sh_pc = "region"
    /\ \E typed \in ShellInputs :
          /\ user_input' = typed
          /\ IF typed = T_exit
             THEN sh_pc' = "bye" /\ CoreUntouched /\ UNCHANGED sh_sites
             ELSE LET state_key == Lower(typed)
                  IN  IF state_key \notin RegionNames(state_url_dict)
                      THEN sh_pc' = "region" /\ CoreUntouched /\ UNCHANGED sh_sites
                      ELSE LET state_url == RegionUrlOf(state_url_dict, state_key)
                           IN  \E r \in GetSitesRuns(state_url, Now) :
                                   /\ Commit("get_sites_for_state", <<state_url>>, r)
                                   /\ IF r.kind = "raise"
                                      THEN sh_pc' = "crashed" /\ UNCHANGED sh_sites
                                      ELSE sh_pc' = "select" /\ sh_sites' = r.val.sites
    /\ UNCHANGED <<keyVars, extractVars, state_url_dict>>

\* lines 380-408: one pass of the inner loop, from its input() to the next
\* input()
ShellSelect ==
    /\ sh_pc = "select"
    /\ \E typed \in ShellInputs :
          /\ user_input' = typed
          /\ IF typed = T_exit
             THEN sh_pc' = "bye" /\ CoreUntouched
             ELSE IF typed = T_back
             THEN sh_pc' = "region" /\ CoreUntouched
             ELSE IF ~isnumeric(typed)
             THEN sh_pc' = "select" /\ CoreUntouched
             ELSE IF int(typed).raised
             THEN sh_pc' = "crashed" /\ CoreUntouched
             ELSE LET number == int(typed).number
                  IN  IF number > Len(sh_sites) \/ number <= 0
                      THEN sh_pc' = "select" /\ CoreUntouched
                      ELSE LET site_object == sh_sites[number - 1 + 1]
                               hit == NearbyKey(site_object) \in DOMAIN CACHE_DICT
                           IN  \E out \in IF hit THEN {[status |-> "exc", body |-> NotJson]}
                                                 ELSE ApiOutcomes,
                                  io \in IF hit THEN {"ok"} ELSE SaveOutcomes :
                                   LET r == get_nearby_places(site_object, Now, out, io)
                                   IN  /\ Commit("get_nearby_places", <<site_object>>, r)
                                       /\ sh_pc' = IF r.kind = "raise" THEN "crashed"
                                                                        ELSE "select"
    /\ UNCHANGED <<keyVars, extractVars, state_url_dict, sh_sites>>

\* the process has ended and the program is started again (lines 321-356)
ShellRestart ==
    /\ sh_pc \in {"bye", "crashed", "aborted"}
    /\ LET o == open_cache(disk)
       IN  /\ CACHE_DICT' = o.cache
           /\ disk' = o.disk
           /\ ret' = Observed("open_cache", <<>>,
                              IF o.raised
                              THEN Raise(Ctx(o.cache, o.disk, {}), "JSONDecodeError")
                              ELSE Return(Ctx(o.cache, o.disk, {}), [t |-> "none"]))
           /\ sh_pc' = IF o.raised THEN "aborted" ELSE "start"
    /\ returned' = {}
    /\ state_url_dict' = [t |-> "none"]
    /\ sh_sites' = <<>>
    /\ user_input' = <<>>
    /\ UNCHANGED <<proc, fetches, keyVars, extractVars>>

NextShell ==
    \/ ShellStart
    \/ ShellRegion
    \/ ShellSelect
    \/ ShellRestart

SpecShell ==
    InitShell /\ [][NextShell]_vars

(***************************************************************************)
(* The key builder on its own                                              *)
(***************************************************************************)
InitKey ==
    LET o == open_cache(NoFile)
    IN  /\ CACHE_DICT = o.cache
        /\ disk = o.disk
        /\ proc = "running"
        /\ returned = {}
        /\ fetches = 0
        /\ ret = Observed("open_cache", <<>>,
                          Return(Ctx(o.cache, o.disk, {}), [t |-> "none"]))
        /\ k_base \in KeyBases
        /\ k_params \in ParamSeqs
        /\ out_key = <<>>
        /\ k_pc = "call"
        /\ ExtractIdle
        /\ ShellIdle

ConstructKey ==
    /\ k_pc = "call"
    /\ out_key' = construct_unique_key(k_base, k_params, connector)
    /\ k_pc' = "done"
    /\ UNCHANGED <<coreVars, k_base, k_params, extractVars, shellVars>>

NextKey ==
    ConstructKey

SpecKey ==
    InitKey /\ [][NextKey]_vars

(***************************************************************************)
(* The extraction of lines 114-135 on its own                              *)
(***************************************************************************)
\* the text of a located element, with and without surrounding blanks
ElementTexts ==
    {<<"Y">>, <<" ", "Z", " ">>}

\* what a locator finds: no element, or an element with its text
Located ==
    {None} \cup {Some(text) : text \in ElementTexts}

\* every parsed page: each of the six locators matches or not, on its own
AllDocs ==
    {Doc(name, cate, zip, phone, city, state) :
        name \in Located, cate \in Located, zip \in Located,
        phone \in Located, city \in Located, state \in Located}

InitExtract ==
    LET o == open_cache(NoFile)
    IN  /\ CACHE_DICT = o.cache
        /\ disk = o.disk
        /\ proc = "running"
        /\ returned = {}
        /\ fetches = 0
        /\ ret = Observed("open_cache", <<>>,
                          Return(Ctx(o.cache, o.disk, {}), [t |-> "none"]))
        /\ KeyIdle
        /\ e_soup \in AllDocs
        /\ e_fields = [t |-> "none"]
        /\ e_pc = "call"
        /\ ShellIdle

\* lines 114-135, with the locals handed to the dict literal of line 137
ExtractFields ==
    /\ e_pc = "call"
    /\ LET e == Extract(e_soup)
       IN  e_fields' = EntityMapping(e.cate, e.name, e.address, e.zip_code, e.phone)
    /\ e_pc' = "done"
    /\ UNCHANGED <<coreVars, keyVars, e_soup, shellVars>>

NextExtract ==
    ExtractFields

SpecExtract ==
    InitExtract /\ [][NextExtract]_vars

(***************************************************************************)
(* Claims                                                                  *)
(***************************************************************************)
JsonOnDisk ==
    disk.exists /\ json_loadable(disk.text)

\* every text a cached value holds
TextsOf(value) ==
    CASE value.t = "entity"  -> {value.category, value.name, value.address,
                                 value.zipcode, value.phone}
      [] value.t = "list"    -> {value.l[i] : i \in 1..Len(value.l)}
      [] value.t = "index"   -> UNION {{value.items[i][1], value.items[i][2]} :
                                        i \in 1..Len(value.items)}
      [] value.t = "payload" -> {}

\* C1: whenever a core operation has returned, the cache document on disk
\* equals the in-memory cache.
C1_WriteThrough ==
    (ret.op # "open_cache" /\ ret.kind = "ok")
        => (disk.exists /\ disk.text = json_dumps(CACHE_DICT))

\* C2: a URL whose HTML fetch failed (transport error or non-success
\* status) has no entry in the cache afterwards, in memory or on disk.
C2_FailedFetchNotCached ==
    \A u \in ret.failedKeys :
        /\ u \notin DOMAIN CACHE_DICT
        /\ JsonOnDisk => u \notin DOMAIN json_loads(disk.text)

\* C3: an operation in which an HTML fetch failed ends in an error, never
\* in a normal result.
C3_FailureSurfaced ==
    ret.failedKeys # {} => ret.kind = "raise"

\* C4: within one run of the process, all Entities get_site_instance has
\* handed back for one URL are equal in every field, and no call for a URL
\* that was handed back before goes to the network.
C4_Idempotent ==
    /\ \A p, q \in returned : p[1] = q[1] => p[2] = q[2]
    /\ ret.refetched = {}

\* a later call for a URL returned an Entity again, with requests made before
C4_Witness ==
    /\ ret.op = "get_site_instance"
    /\ ret.kind = "ok"
    /\ ret.again = {ret.arg[1]}
    /\ ret.net = 0
    /\ fetches > 0

\* C5: a core operation removes no cache entry and changes no cached value;
\* what it adds are entries for keys it looked up and missed.
C5_WriteOnce ==
    [][ret'.op # "open_cache" =>
          /\ \A k \in DOMAIN CACHE_DICT :
                k \in DOMAIN CACHE_DICT' /\ CACHE_DICT'[k] = CACHE_DICT[k]
          /\ (DOMAIN CACHE_DICT') \ (DOMAIN CACHE_DICT) \subseteq ret'.missed]_vars

\* an operation added an entry to a cache that already held another one
C5_Witness ==
    /\ ret.op # "open_cache"
    /\ ret.missed \cap DOMAIN CACHE_DICT # {}
    /\ (DOMAIN CACHE_DICT) \ ret.missed # {}

\* C6: no key and no value of the cache document on disk contains the API
\* credential.
C6_CredentialNotPersisted ==
    JsonOnDisk =>
        \A k \in DOMAIN json_loads(disk.text) :
            /\ ~Contains(k, API_KEY)
            /\ \A s \in TextsOf(json_loads(disk.text)[k]) : ~Contains(s, API_KEY)

\* C7: a process start that finds the file open_cache created, with no save
\* since, loads it and gets the empty store.
C7_FreshFileLoads ==
    (ret.op = "open_cache" /\ disk = File(EmptyText))
        => (ret.kind = "ok" /\ proc = "running" /\ CACHE_DICT = EmptyDict)

\* C8: the key of a reordering of the parameters differs from the key of
\* the original order.
C8_ReorderDiffers ==
    k_pc = "done" =>
        \A q \in Reorderings(k_params) :
            q # k_params => construct_unique_key(k_base, q, connector) # out_key

\* C9: no other request (another base identifier or another parameter
\* sequence) has the same key.
C9_NoCollision ==
    k_pc = "done" =>
        \A b \in KeyBases, q \in ParamSeqs :
            <<b, q>> # <<k_base, k_params>>
                => construct_unique_key(b, q, connector) # out_key

\* length of what one parameter contributes to the key
SegLen(item) ==
    2 * Len(connector) + Len(item[1]) + Len(Str(item[2]))

RECURSIVE Offset(_, _)
\* where in the key, after the base identifier, parameter i starts
Offset(params, i) ==
    IF i = 1 THEN 0 ELSE Offset(params, i - 1) + SegLen(params[i - 1])

KeyLayout ==
    k_pc = "done" =>
        /\ Len(out_key) = Len(k_base) + Offset(k_params, Len(k_params) + 1)
        /\ SubSeq(out_key, 1, Len(k_base)) = k_base
        /\ \A i \in 1..Len(k_params) :
              LET o == Len(k_base) + Offset(k_params, i)
              IN  SubSeq(out_key, o + 1, o + SegLen(k_params[i]))
                      = connector \o k_params[i][1] \o connector \o Str(k_params[i][2])
        /\ k_params = <<>> => out_key = k_base

\* C10: the key is the base identifier followed, per parameter in order, by
\* connector, name, connector, string value (the base identifier alone when
\* there are no parameters), and building it changes nothing else.
C10_KeyShape ==
    /\ []KeyLayout
    /\ [][k_pc' = "done" => UNCHANGED <<coreVars, k_base, k_params>>]_vars

\* a key was built from two parameters, one of them the int 10
C10_Witness ==
    /\ k_pc = "done"
    /\ Len(k_params) = 2
    /\ k_params[2][2] = IntV(10)
    /\ k_params[1][1] # <<>>

\* C11: when the external API answers a cache miss of get_nearby_places
\* with a non-success status, the call ends in an error, the cache in
\* memory and the file on disk are as before, none of them holds the
\* request's key, and so the next call for the entity misses again.
C11_ApiFailureNotCached ==
    [][(ret'.op = "get_nearby_places" /\ ret'.apiFailed /\ ret'.payload # None) =>
          /\ ret'.kind = "raise"
          /\ CACHE_DICT' = CACHE_DICT
          /\ disk' = disk
          /\ NearbyKey(ret'.arg[1]) \notin DOMAIN CACHE_DICT'
          /\ JsonOnDisk' => NearbyKey(ret'.arg[1]) \notin DOMAIN json_loads(disk'.text)]_vars

\* the API answered a lookup with a non-success status and a JSON body,
\* with a cache that holds entries to lose
C11_Witness ==
    /\ ret.op = "get_nearby_places"
    /\ ret.apiFailed
    /\ ret.payload = Some(Payload(<<>>))
    /\ ret.missed = {NearbyKey(ret.arg[1])}
    /\ CACHE_DICT # EmptyDict

\* C12: a get_nearby_places that returns hands back the payload as it is:
\* on a hit, exactly the value stored under the request's key, with no
\* external request; on a miss, the payload the API sent, which is then
\* the value stored under the key.  A second lookup with the same postal
\* code is therefore a hit with the same payload.
C12_PayloadUnmodified ==
    [][(ret'.op = "get_nearby_places" /\ ret'.kind = "ok") =>
          LET unique_key == NearbyKey(ret'.arg[1])
          IN  IF unique_key \in DOMAIN CACHE_DICT
              THEN /\ ret'.val = CACHE_DICT[unique_key]
                   /\ ret'.net = 0
                   /\ CACHE_DICT' = CACHE_DICT
              ELSE /\ ret'.net = 1
                   /\ ret'.payload = Some(ret'.val)
                   /\ CACHE_DICT'[unique_key] = ret'.val]_vars

\* a lookup returned, without a request, the payload an earlier lookup
\* with the same postal code had fetched and stored
C12_Witness ==
    /\ ret.op = "get_nearby_places"
    /\ ret.kind = "ok"
    /\ ret.net = 0
    /\ ret.payload = None
    /\ ret.val = Payload(<<"r">>)
    /\ ret.val = CACHE_DICT[NearbyKey(ret.arg[1])]
    /\ fetches >= 2

\* C13: an operation in which save_cache failed still returns its result,
\* and the values it inserted are in the in-memory cache.
C13_SaveFailureNonFatal ==
    ret.saveFailed =>
        /\ ret.kind = "ok"
        /\ ret.missed \subseteq DOMAIN CACHE_DICT

\* what a field is to be when its locator found element
Expected(element, sentinel) ==
    IF element = None THEN sentinel ELSE Strip(element[1])

\* C14: for every parsed page the extraction ends with an Entity mapping
\* of five texts; name, category, postal code and phone are each the
\* located text when the field's own locator matched and the field's own
\* sentinel otherwise, whatever the other locators found.
C14_ExtractionTotal ==
    e_pc = "done" =>
        /\ e_fields.t = "entity"
        /\ e_fields.name = Expected(e_soup.name, NoName)
        /\ e_fields.category = Expected(e_soup.cate, NoCategory)
        /\ e_fields.zipcode = Expected(e_soup.zip, NoZipcode)
        /\ e_fields.phone = Expected(e_soup.phone, NoPhone)
        /\ \A d \in AllDocs :
              LET e == Extract(d)
              IN  /\ d.name = e_soup.name => e.name = e_fields.name
                  /\ d.cate = e_soup.cate => e.cate = e_fields.category
                  /\ d.zip = e_soup.zip => e.zip_code = e_fields.zipcode
                  /\ d.phone = e_soup.phone => e.phone = e_fields.phone

\* a page on which the name and the phone are found, the category and the
\* postal code are not
C14_Witness ==
    /\ e_pc = "done"
    /\ e_soup.name # None /\ e_soup.phone # None
    /\ e_soup.cate = None /\ e_soup.zip = None
    /\ e_fields.category = NoCategory
    /\ e_fields.name = <<"Z">>

\* C15: the extracted address is "<locality>, <region>" exactly when both
\* sub-values are found, and the sentinel "No Address" when either is
\* missing.
C15_AddressAllOrNothing ==
    e_pc = "done" =>
        IF e_soup.city # None /\ e_soup.state # None
        THEN e_fields.address
                 = Strip(e_soup.city[1]) \o <<",", " ">> \o Strip(e_soup.state[1])
        ELSE e_fields.address = <<"N", "o", " ", "A", "d", "d", "r", "e", "s", "s">>

\* a page with a locality and no region
C15_Witness ==
    /\ e_pc = "done"
    /\ e_soup.city # None
    /\ e_soup.state = None
    /\ e_fields.address = NoAddress

\* NationalSite(**json_dict) of a cached field mapping
SiteOf(json_dict) ==
    NationalSite(json_dict.category, json_dict.name, json_dict.address,
                 json_dict.zipcode, json_dict.phone)

\* get_sites_for_state is called for a URL under which a link list is cached
ListHit ==
    /\ ret'.op = "get_sites_for_state"
    /\ ret'.arg[1] \in DOMAIN CACHE_DICT
    /\ CACHE_DICT[ret'.arg[1]].t = "list"

\* a returning call has one result per cached link, in the cached order:
\* result i is the Entity of link i
OnePerLink ==
    ret'.kind = "ok" =>
        LET links == CACHE_DICT[ret'.arg[1]].l
        IN  /\ Len(ret'.val.sites) = Len(links)
            /\ \A i \in 1..Len(links) :
                  ret'.val.sites[i] = SiteOf(CACHE_DICT'[links[i]])

\* C16 as stated: with a link list cached under the region URL,
\* get_sites_for_state yields one result per cached link in the cached
\* order and performs no fetching.
C16_CachedLinksNoFetch ==
    [][ListHit => (ret'.net = 0 /\ OnePerLink)]_vars

\* C16, amended: with a link list cached under the region URL,
\* get_sites_for_state does not fetch the listing page and yields one
\* result per cached link in the cached order; the only requests it sends
\* are for entity pages of cached links that are not in the cache, one each.
C16_CachedLinksInOrder ==
    [][ListHit =>
          LET links == CACHE_DICT[ret'.arg[1]].l
          IN  /\ ret'.arg[1] \notin ret'.missed
              /\ ret'.missed \subseteq {links[i] : i \in 1..Len(links)} \ DOMAIN CACHE_DICT
              /\ ret'.net = Cardinality(ret'.missed)
              /\ OnePerLink]_vars

\* a call found the cached list of two links, fetched both entity pages
\* and returned two different Entities
C16_Witness ==
    /\ ret.op = "get_sites_for_state"
    /\ ret.kind = "ok"
    /\ ret.arg[1] \notin ret.missed
    /\ ret.net = 2
    /\ Len(ret.val.sites) = 2
    /\ ret.val.sites[1] # ret.val.sites[2]

\* C17: a failure of get_sites_for_state or get_nearby_places at a prompt
\* does not end the process: the pass of the loop in which the operation
\* failed ends at a prompt again, and the loop is left only on "exit".
C17_FailureReturnsToPrompt ==
    /\ [][(/\ sh_pc \in {"region", "select"}
           /\ ret' # ret
           /\ ret'.kind = "raise"
           /\ ret'.val.name \in {"ConnectionError", "Access Failed!"})
              => sh_pc' \in {"region", "select"}]_vars
    /\ [](sh_pc = "bye" => user_input = T_exit)

\* typed is the decimal numeral of one of the n listed entries
ValidSelection(typed, n) ==
    /\ typed # <<>>
    /\ \A i \in 1..Len(typed) : typed[i] \in DecimalChars
    /\ DecimalValue(typed) \in 1..n

\* at the region prompt, a name that is not in the region index; at the
\* selection prompt, anything but "exit", "back" and a valid selection
InvalidInput ==
    \/ /\ sh_pc = "region"
       /\ user_input' # T_exit
       /\ Lower(user_input') \notin RegionNames(state_url_dict)
    \/ /\ sh_pc = "select"
       /\ user_input' \notin {T_exit, T_back}
       /\ ~ValidSelection(user_input', Len(sh_sites))

\* C18: invalid input at a prompt sends no request, changes neither the
\* cache nor the file and leads back to the same prompt; a valid selection
\* n looks up the nearby places of the n-th listed entity.
C18_InvalidInputReprompts ==
    [][/\ InvalidInput =>
            /\ UNCHANGED <<CACHE_DICT, disk, fetches, ret>>
            /\ sh_pc' = sh_pc
       /\ (sh_pc = "select" /\ ValidSelection(user_input', Len(sh_sites))) =>
            /\ ret'.op = "get_nearby_places"
            /\ ret'.arg = <<sh_sites[DecimalValue(user_input')]>>]_vars

\* C19: whenever an operation found its key in the cache, the value under
\* the key had the shape the operation reads: a field mapping for
\* get_site_instance, a link list for get_sites_for_state, the region
\* mapping for build_state_url_dict, a payload for get_nearby_places.
C19_HitShapes ==
    ret.misfit = {}

====
